---- MODULE Spec2Model ----
(***************************************************************************)
(* MagTag offline literary quote clock (src/code.py).                      *)
(*                                                                         *)
(* Strings are sequences of code points, so that len, indexing, find,      *)
(* split, strip, int() and the f-string formats are computed the way the   *)
(* program computes them.  Time is counted in tenths of a second.          *)
(*                                                                         *)
(* Four specifications share the variables:                                *)
(*   SpecLoad      the CSV loader, the fallback substitution and selection *)
(*   SpecLayout    the caret splitter and the greedy line layout           *)
(*   SpecSanitize  the text sanitizer                                      *)
(*   Spec        start-up, the main loop, the set-time UI, render and      *)
(*               safe_refresh                                              *)
(***************************************************************************)
EXTENDS Integers, Sequences, FiniteSets, TLC

VARIABLES
    pc,                \* position of the program
    file,              \* content of /quotes.csv: <<>> = unreadable, <<lines>> = readable
    lineno,            \* number of lines the loader has consumed
    mapping,           \* load_quotes_csv's local dict, in insertion order
    QUOTES_BY_HHMM,    \* the module-level index
    iter_first,        \* position of the entry that iteration of the index yields first
    sel,               \* the (h, m) of the last selection
    picked,            \* result of the last pick_for_time: Some(record) or RAISED
    span,              \* result of the last split_caret_span
    rtc,               \* rtc_dev.datetime
    mono,              \* time.monotonic()
    _last_refresh,
    _last_bucket,      \* <<>> = None, <<b>> = b
    last_minute_seen,
    set_mode,
    edit_h,
    edit_m,
    quote_text,        \* text handed to the last layout_quote_into_group
    y_limits,          \* <<y_start, y_max>> of the last layout, y_max an option
    quote_group,       \* runs of the quote, in the order they were appended
    meta_label,        \* meta_label.text
    time_label,        \* time_label.text
    shown,             \* what the e-ink panel shows: the content at the last refresh
    ticks,             \* minutes the clock has advanced by itself
    call               \* what the last step's render / safe_refresh call did

vars == <<pc, file, lineno, mapping, QUOTES_BY_HHMM, iter_first, sel, picked, span,
          rtc, mono, _last_refresh, _last_bucket, last_minute_seen, set_mode,
          edit_h, edit_m, quote_text, y_limits, quote_group, meta_label,
          time_label, shown, ticks, call>>

---------------------------------------------------------------------------
(* Code points the program names.                                          *)

PIPE == 124
COLON == 58
HASH == 35
CARET == 94
SPACE == 32
QMARK == 63
MINUS == 45
PLUS == 43
ZERO == 48
CR == 13
LF == 10

\* str.strip() and str.split() whitespace (ASCII)
Whitespace == {9, 10, 11, 12, 13, 32}
Digits == 48..57

\* results that may be absent: None / an exception is <<>>, a value v is <<v>>
None == <<>>
RAISED == <<>>
Some(v) == <<v>>

---------------------------------------------------------------------------
(* String primitives, as Python computes them.                             *)

\* s.find(c, start): the first position >= from holding c, 0 when there is none
RECURSIVE find(_, _, _)
find(s, c, from) ==
    IF from > Len(s) THEN 0
    ELSE IF s[from] = c THEN from
    ELSE find(s, c, from + 1)

\* s.replace(c, "")
RECURSIVE remove(_, _)
remove(s, c) ==
    IF s = <<>> THEN <<>>
    ELSE IF Head(s) = c THEN remove(Tail(s), c)
    ELSE <<Head(s)>> \o remove(Tail(s), c)

\* s.rstrip(chars)
RECURSIVE rstrip(_, _)
rstrip(s, chars) ==
    IF s /= <<>> /\ s[Len(s)] \in chars THEN rstrip(SubSeq(s, 1, Len(s) - 1), chars)
    ELSE s

RECURSIVE lstrip(_, _)
lstrip(s, chars) ==
    IF s /= <<>> /\ Head(s) \in chars THEN lstrip(Tail(s), chars)
    ELSE s

\* s.strip()
strip(s) == lstrip(rstrip(s, Whitespace), Whitespace)

\* s.split(sep, maxsplit): at most maxsplit cuts, the rest kept whole
RECURSIVE split_sep(_, _, _)
split_sep(s, sep, maxsplit) ==
    LET i == find(s, sep, 1) IN
    IF maxsplit = 0 \/ i = 0 THEN <<s>>
    ELSE <<SubSeq(s, 1, i - 1)>> \o split_sep(SubSeq(s, i + 1, Len(s)), sep, maxsplit - 1)

\* s.split(): cut at runs of whitespace, no empty words
RECURSIVE split_ws(_)
split_ws(s) ==
    LET t == lstrip(s, Whitespace) IN
    IF t = <<>> THEN <<>>
    ELSE LET firstws == CHOOSE i \in 1..(Len(t) + 1) :
                 /\ (i = Len(t) + 1 \/ t[i] \in Whitespace)
                 /\ \A j \in 1..(i - 1) : t[j] \notin Whitespace
         IN <<SubSeq(t, 1, firstws - 1)>> \o split_ws(SubSeq(t, firstws, Len(t)))

\* the digits of n >= 0
RECURSIVE decimal(_)
decimal(n) ==
    IF n < 10 THEN <<ZERO + n>>
    ELSE decimal(n \div 10) \o <<ZERO + (n % 10)>>

\* f"{n:02d}": minimum width 2, zero padded, the sign counted in the width
fmt02d(n) ==
    IF n < 0 THEN <<MINUS>> \o decimal(0 - n)
    ELSE IF n < 10 THEN <<ZERO>> \o decimal(n)
    ELSE decimal(n)

\* f"{n}"
fmtd(n) == IF n < 0 THEN <<MINUS>> \o decimal(0 - n) ELSE decimal(n)

RECURSIVE digits_value(_, _)
digits_value(s, acc) ==
    IF s = <<>> THEN acc
    ELSE digits_value(Tail(s), acc * 10 + (Head(s) - ZERO))

\* int(s): surrounding whitespace dropped, an optional sign, then digits only;
\* <<n>> on success, RAISED for the ValueError
int(s) ==
    LET t == strip(s)
        signed == t /= <<>> /\ Head(t) \in {PLUS, MINUS}
        body == IF signed THEN Tail(t) ELSE t
    IN  IF body = <<>> \/ \E i \in 1..Len(body) : body[i] \notin Digits THEN RAISED
        ELSE IF signed /\ Head(t) = MINUS THEN Some(0 - digits_value(body, 0))
        ELSE Some(digits_value(body, 0))

---------------------------------------------------------------------------
(* The index: a dict as the sequence of its entries in insertion order.    *)

UPDATE_MINUTES == 5

\* position of key k in dict d, 0 when absent
key_pos(d, k) ==
    IF \E i \in 1..Len(d) : d[i].key = k
    THEN CHOOSE i \in 1..Len(d) : d[i].key = k
    ELSE 0

\* d.get(k): the list, or None (which `not lst` treats like the empty list)
dict_get(d, k) ==
    IF key_pos(d, k) = 0 THEN <<>> ELSE d[key_pos(d, k)].recs

\* d.setdefault(k, []).append(rec)
setdefault_append(d, k, rec) ==
    IF key_pos(d, k) = 0
    THEN Append(d, [key |-> k, recs |-> <<rec>>])
    ELSE [d EXCEPT ![key_pos(d, k)].recs = Append(@, rec)]

\* the time field after lines 113-116: Some(hhmm), or RAISED for the ValueError
\* of the unpacking h,m = ... or of int()
normalize_hhmm(field) ==
    LET hhmm == strip(field) IN
    IF Len(hhmm) = 4 /\ hhmm[2] = COLON
    THEN LET hm == split_sep(hhmm, COLON, Len(hhmm)) IN
         IF Len(hm) /= 2 THEN RAISED
         ELSE IF int(hm[1]) = RAISED \/ int(hm[2]) = RAISED THEN RAISED
         ELSE Some(fmt02d(int(hm[1])[1]) \o <<COLON>> \o fmt02d(int(hm[2])[1]))
    ELSE Some(hhmm)

\* the key test of line 117
accepts_key(hhmm) == Len(hhmm) = 5 /\ hhmm[3] = COLON

\* one turn of the loop over the lines (lines 105-118):
\* the dict afterwards, and whether an exception left the loop
load_line(d, rawline) ==
    LET raw == rstrip(rawline, {CR, LF})
        parts == split_sep(raw, PIPE, 4)
    IN  IF raw = <<>> \/ Head(raw) = HASH THEN [raised |-> FALSE, mapping |-> d]
        ELSE IF Len(parts) < 5 THEN [raised |-> FALSE, mapping |-> d]
        ELSE LET n == normalize_hhmm(parts[1]) IN
             IF n = RAISED THEN [raised |-> TRUE, mapping |-> d]
             ELSE IF accepts_key(n[1])
             THEN [raised |-> FALSE,
                   mapping |-> setdefault_append(d, n[1],
                                   <<parts[2], parts[3], parts[4], parts[5]>>)]
             ELSE [raised |-> FALSE, mapping |-> d]

\* load_quotes_csv on a readable file's lines, from dict d on
RECURSIVE load_lines(_, _)
load_lines(d, lines) ==
    IF lines = <<>> THEN [raised |-> FALSE, mapping |-> d]
    ELSE LET r == load_line(d, Head(lines)) IN
         IF r.raised THEN r ELSE load_lines(r.mapping, Tail(lines))

\* load_quotes_csv(path): open() failing with OSError gives the empty dict
load_quotes_csv(f) ==
    IF f.readable THEN load_lines(<<>>, f.lines)
    ELSE [raised |-> FALSE, mapping |-> <<>>]

\* "^Midnight^.", "High ^noon^.", "Fallback", "System", "unknown"
FallbackIndex ==
    << [key  |-> <<48,48,58,48,48>>,
        recs |-> << << <<94,77,105,100,110,105,103,104,116,94,46>>,
                       <<70,97,108,108,98,97,99,107>>, <<83,121,115,116,101,109>>,
                       <<117,110,107,110,111,119,110>> >> >>],
       [key  |-> <<49,50,58,48,48>>,
        recs |-> << << <<72,105,103,104,32,94,110,111,111,110,94,46>>,
                       <<70,97,108,108,98,97,99,107>>, <<83,121,115,116,101,109>>,
                       <<117,110,107,110,111,119,110>> >> >>] >>

\* start-up without the substitution of the fallback
substitute_nothing(d) == d

\* lines 123-128: the loaded dict, or the fallback when it is empty
substitute_fallback(d) == IF d = <<>> THEN FallbackIndex ELSE d

\* f"{h:02d}:{m:02d}"
time_key(h, m) == fmt02d(h) \o <<COLON>> \o fmt02d(m)

bucket_of(m) == (m \div UPDATE_MINUTES) * UPDATE_MINUTES

\* pick_for_time with the minute of the retry left unquantized
pick_for_time_unquantized(idx, first, h, m) ==
    LET exact == dict_get(idx, time_key(h, m))
        lst2 == IF exact = <<>> THEN dict_get(idx, time_key(h, m)) ELSE exact
    IN  IF lst2 = <<>> /\ idx = <<>> THEN RAISED
        ELSE LET lst == IF lst2 = <<>> THEN idx[first].recs ELSE lst2 IN
             IF Len(lst) = 0 THEN RAISED
             ELSE Some(lst[(h % Len(lst)) + 1])

\* pick_for_time that looks the bucket key up before the exact key
pick_for_time_bucket_first(idx, first, h, m) ==
    LET quant == dict_get(idx, time_key(h, bucket_of(m)))
        lst2 == IF quant = <<>> THEN dict_get(idx, time_key(h, m)) ELSE quant
    IN  IF lst2 = <<>> /\ idx = <<>> THEN RAISED
        ELSE LET lst == IF lst2 = <<>> THEN idx[first].recs ELSE lst2 IN
             IF Len(lst) = 0 THEN RAISED
             ELSE Some(lst[(h % Len(lst)) + 1])

\* pick_for_time(h, m) over index idx whose iteration starts at entry `first`:
\* Some(record), or RAISED (StopIteration of next(iter({})), or h % 0)
pick_for_time(idx, first, h, m) ==
    LET exact == dict_get(idx, time_key(h, m))
        lst2 == IF exact = <<>> THEN dict_get(idx, time_key(h, bucket_of(m))) ELSE exact
    IN  IF lst2 = <<>> /\ idx = <<>> THEN RAISED
        ELSE LET lst == IF lst2 = <<>> THEN idx[first].recs ELSE lst2 IN
             IF Len(lst) = 0 THEN RAISED
             ELSE Some(lst[(h % Len(lst)) + 1])

---------------------------------------------------------------------------
(* Markup splitter.                                                        *)

\* split_caret_span that leaves the carets after the second one in place
split_caret_span_two_only(text) ==
    LET a == find(text, CARET, 1) IN
    IF a = 0 THEN [pre |-> text, mid |-> None, post |-> <<>>]
    ELSE LET b == find(text, CARET, a + 1) IN
         IF b = 0 THEN [pre |-> remove(text, CARET), mid |-> None, post |-> <<>>]
         ELSE [pre  |-> SubSeq(text, 1, a - 1),
               mid  |-> Some(SubSeq(text, a + 1, b - 1)),
               post |-> SubSeq(text, b + 1, Len(text))]

\* split_caret_span(text): (pre, mid, post), mid an option
split_caret_span(text) ==
    LET a == find(text, CARET, 1) IN
    IF a = 0 THEN [pre |-> text, mid |-> None, post |-> <<>>]
    ELSE LET b == find(text, CARET, a + 1) IN
         IF b = 0 THEN [pre |-> remove(text, CARET), mid |-> None, post |-> <<>>]
         ELSE [pre  |-> remove(SubSeq(text, 1, a - 1), CARET),
               mid  |-> Some(remove(SubSeq(text, a + 1, b - 1), CARET)),
               post |-> remove(SubSeq(text, b + 1, Len(text)), CARET)]

NoSpan == [pre |-> <<>>, mid |-> None, post |-> <<>>]

---------------------------------------------------------------------------
(* Text sanitizer and time format.                                         *)

\* the replacement table of sanitize_ascii: code point -> ASCII text
\* (em dash, en dash, ellipsis, curly quotes, bullet, middle dot, no-break space)
repl(ch) ==
    CASE ch = 8212 -> <<MINUS>>
      [] ch = 8211 -> <<MINUS>>
      [] ch = 8230 -> <<46, 46, 46>>
      [] ch = 8220 -> <<34>>
      [] ch = 8221 -> <<34>>
      [] ch = 8216 -> <<39>>
      [] ch = 8217 -> <<39>>
      [] ch = 8226 -> <<42>>
      [] ch = 183 -> <<42>>
      [] ch = 160 -> <<SPACE>>
      [] OTHER -> IF ch < 128 THEN <<ch>> ELSE <<QMARK>>

\* sanitize_ascii that replaces the characters of the table only
RECURSIVE sanitize_ascii_table_only(_)
sanitize_ascii_table_only(s) ==
    IF s = <<>> THEN s
    ELSE (IF Head(s) >= 128 /\ repl(Head(s)) = <<QMARK>> THEN <<Head(s)>>
          ELSE repl(Head(s)))
         \o sanitize_ascii_table_only(Tail(s))

RECURSIVE sanitize_ascii(_)
sanitize_ascii(s) ==
    IF s = <<>> THEN s
    ELSE repl(Head(s)) \o sanitize_ascii(Tail(s))

TIME_24H == TRUE

\* "AM" / "PM"
fmt_time(h, m) ==
    IF TIME_24H THEN fmt02d(h) \o <<COLON>> \o fmt02d(m)
    ELSE LET suf == IF h < 12 THEN <<65, 77>> ELSE <<80, 77>>
             hh == IF h % 12 = 0 THEN 12 ELSE h % 12
         IN  fmtd(hh) \o <<COLON>> \o fmt02d(m) \o <<SPACE>> \o suf

---------------------------------------------------------------------------
(* Line layout.  terminalio.FONT is a fixed-width font: a label's bounding *)
(* box is CharW per character wide and LineH high.                         *)

MARGIN == 10
CharW == 6
LineH == 14
LINE_PAD == 2

\* the panel, scaled down so that short texts wrap and run out of height
DisplayWidth == 38
DisplayHeight == 80

\* measure(wtxt): (width, height) of the label's bounding box
measure(wtxt) == <<CharW * Len(wtxt), LineH>>

\* the (text, bold) tokens of lines 157-161
tokens_of(text) ==
    LET sp == split_caret_span(text)
        words(t) == [i \in 1..Len(split_ws(t)) |-> [txt |-> split_ws(t)[i], bold |-> FALSE]]
    IN  (IF sp.pre /= <<>> THEN words(sp.pre) ELSE <<>>)
        \o (IF sp.mid /= None THEN <<[txt |-> sp.mid[1], bold |-> TRUE]>> ELSE <<>>)
        \o (IF sp.post /= <<>> THEN words(sp.post) ELSE <<>>)

\* the labels one token appends to the group at (x, y): one, or two for a bold token
labels_of(tok, x, y) ==
    <<[text |-> tok.txt, x |-> x, y |-> y, bold |-> tok.bold]>>
    \o (IF tok.bold THEN <<[text |-> tok.txt, x |-> x + 1, y |-> y, bold |-> tok.bold]>>
        ELSE <<>>)

\* the `for txt, bold in line` loop of flush_line, from x on
RECURSIVE place_line(_, _, _)
place_line(line, x, y) ==
    IF line = <<>> THEN <<>>
    ELSE labels_of(Head(line), x, y)
         \o place_line(Tail(line), x + measure(Head(line).txt)[1] + measure(<<SPACE>>)[1], y)

\* flush_line without the check of the height
flush_line_unchecked(line, y, y_max) ==
    [ok |-> TRUE, labels |-> place_line(line, MARGIN, y)]

\* flush_line(): FALSE and nothing placed when the line would pass y_max
flush_line(line, y, y_max) ==
    IF y_max /= None /\ (y + measure(<<SPACE>>)[2]) > y_max[1]
    THEN [ok |-> FALSE, labels |-> <<>>]
    ELSE [ok |-> TRUE, labels |-> place_line(line, MARGIN, y)]

\* the loop that wraps by the width of the line without the new token
RECURSIVE layout_from_late(_, _, _, _)
layout_from_late(tokens, i, st, y_max) ==
    IF i > Len(tokens)
    THEN IF st.line /= <<>>
         THEN st.group \o flush_line(st.line, st.y, y_max).labels
         ELSE st.group
    ELSE LET tok == tokens[i]
             w == measure(tok.txt)[1]
             space_w == measure(<<SPACE>>)[1]
             line_h == measure(<<SPACE>>)[2]
             next_w == IF st.line = <<>> THEN w ELSE st.line_w + space_w + w
         IN  IF st.line /= <<>> /\ (MARGIN + st.line_w + MARGIN) > DisplayWidth
             THEN LET f == flush_line(st.line, st.y, y_max) IN
                  IF ~f.ok THEN st.group
                  ELSE layout_from_late(tokens, i + 1,
                                   [y |-> st.y + line_h + LINE_PAD, line |-> <<tok>>,
                                    line_w |-> w, group |-> st.group \o f.labels],
                                   y_max)
             ELSE layout_from_late(tokens, i + 1,
                              [st EXCEPT !.line = Append(@, tok), !.line_w = next_w],
                              y_max)

\* the loop that goes on with the next line after a line did not fit, and
\* steps by the line height alone
RECURSIVE layout_from_tight(_, _, _, _)
layout_from_tight(tokens, i, st, y_max) ==
    IF i > Len(tokens)
    THEN IF st.line /= <<>>
         THEN st.group \o flush_line(st.line, st.y, y_max).labels
         ELSE st.group
    ELSE LET tok == tokens[i]
             w == measure(tok.txt)[1]
             space_w == measure(<<SPACE>>)[1]
             line_h == measure(<<SPACE>>)[2]
             next_w == IF st.line = <<>> THEN w ELSE st.line_w + space_w + w
         IN  IF st.line /= <<>> /\ (MARGIN + next_w + MARGIN) > DisplayWidth
             THEN LET f == flush_line(st.line, st.y, y_max) IN
                  layout_from_tight(tokens, i + 1,
                                   [y |-> st.y + line_h, line |-> <<tok>>,
                                    line_w |-> w, group |-> st.group \o f.labels],
                                   y_max)
             ELSE layout_from_tight(tokens, i + 1,
                              [st EXCEPT !.line = Append(@, tok), !.line_w = next_w],
                              y_max)

\* the loop of lines 193-207 from token i on; st = the locals y, line, line_w
\* and the group's content
RECURSIVE layout_from(_, _, _, _)
layout_from(tokens, i, st, y_max) ==
    IF i > Len(tokens)
    THEN IF st.line /= <<>>
         THEN st.group \o flush_line(st.line, st.y, y_max).labels
         ELSE st.group
    ELSE LET tok == tokens[i]
             w == measure(tok.txt)[1]
             space_w == measure(<<SPACE>>)[1]
             line_h == measure(<<SPACE>>)[2]
             next_w == IF st.line = <<>> THEN w ELSE st.line_w + space_w + w
         IN  IF st.line /= <<>> /\ (MARGIN + next_w + MARGIN) > DisplayWidth
             THEN LET f == flush_line(st.line, st.y, y_max) IN
                  IF ~f.ok THEN st.group
                  ELSE layout_from(tokens, i + 1,
                                   [y |-> st.y + line_h + LINE_PAD, line |-> <<tok>>,
                                    line_w |-> w, group |-> st.group \o f.labels],
                                   y_max)
             ELSE layout_from(tokens, i + 1,
                              [st EXCEPT !.line = Append(@, tok), !.line_w = next_w],
                              y_max)

\* layout_quote_into_group(qgroup, quote_text, y_start, y_max): the group is
\* emptied first, so the result is the group's content afterwards
layout_quote_into_group(text, y_start, y_max) ==
    layout_from(tokens_of(text), 1,
                [y |-> y_start, line |-> <<>>, line_w |-> 0, group |-> <<>>], y_max)

---------------------------------------------------------------------------
(* Inputs of the loader: the lines a dataset file is made of.              *)

\* "0900|Hello ^world^.|Book|Author|tag"
LineCompact ==
    <<48,57,48,48,124,72,101,108,108,111,32,94,119,111,114,108,100,94,46,124,
      66,111,111,107,124,65,117,116,104,111,114,124,116,97,103>>
\* "09:00|Hi ^nine^|B|A|t"
LineNine ==
    <<48,57,58,48,48,124,72,105,32,94,110,105,110,101,94,124,66,124,65,124,116>>
\* "09:00|It was ^9^|C|D|t"
LineNineB ==
    <<48,57,58,48,48,124,73,116,32,119,97,115,32,94,57,94,124,67,124,68,124,116>>
\* "9:45|a ^b^ c|W|X|t\r\n"
LineShort ==
    <<57,58,52,53,124,97,32,94,98,94,32,99,124,87,124,88,124,116,13,10>>
\* " 09:47 |x|W|X|t"
LineExact ==
    <<32,48,57,58,52,55,32,124,120,124,87,124,88,124,116>>
\* "99:99|x|W|X|t"
LineBadRange ==
    <<57,57,58,57,57,124,120,124,87,124,88,124,116>>
\* "a:bc|x|W|X|t"
LineNonNum ==
    <<97,58,98,99,124,120,124,87,124,88,124,116>>
\* "# c"
LineComment ==
    <<35,32,99>>
\* "09:00|x|W"
LineFew ==
    <<48,57,58,48,48,124,120,124,87>>

\* "12:00|It's ^noon^...|W|E|t" with a typographic apostrophe (U+2019), an
\* ellipsis (U+2026) and an E acute (U+00C9)
LineTypographic ==
    <<49,50,58,48,48,124,73,116,8217,115,32,94,110,111,111,110,94,8230,124,87,124,
      201,124,116>>

SampleLines ==
    {LineCompact, LineNine, LineNineB, LineShort, LineExact, LineBadRange,
     LineNonNum, LineComment, LineFew, <<>>}

MaxLines == 2

SeqsUpTo(S, n) == UNION {[1..k -> S] : k \in 0..n}

\* a dataset with two records under 09:00, loaded after a record of 09:45
RotationFile == [readable |-> TRUE, lines |-> <<LineShort, LineNine, LineNineB>>]

\* a missing or unreadable file, a readable one of at most MaxLines lines, or
\* the dataset with two records under one key
Files ==
    {[readable |-> FALSE, lines |-> <<>>]}
    \cup {[readable |-> TRUE, lines |-> l] : l \in SeqsUpTo(SampleLines, MaxLines)}
    \cup {RotationFile}

\* the times selection is tried at
SelHours == {0, 9, 10, 23}
SelMinutes == {0, 45, 47, 59}

---------------------------------------------------------------------------
(* Variables a specification does not use keep these values.               *)

NoCall ==
    [op |-> "none", key |-> "none", force |-> FALSE, preview |-> FALSE,
     skipped |-> FALSE, attempts |-> 0, refreshed |-> FALSE, busy1 |-> FALSE]
Blank == [quote |-> <<>>, meta |-> <<>>, time |-> <<>>]

ParkedLoad ==
    /\ file = [readable |-> FALSE, lines |-> <<>>]
    /\ lineno = 0
    /\ mapping = <<>>
ParkedSelect ==
    /\ sel = <<>>
    /\ picked = <<>>
ParkedMain ==
    /\ rtc = <<>>
    /\ mono = 0
    /\ _last_refresh = 0
    /\ _last_bucket = None
    /\ last_minute_seen = -1
    /\ set_mode = 0
    /\ edit_h = 0
    /\ edit_m = 0
    /\ meta_label = <<>>
    /\ time_label = <<>>
    /\ shown = Blank
    /\ ticks = 0
    /\ call = NoCall
ParkedLayout ==
    /\ quote_text = <<>>
    /\ y_limits = <<>>
    /\ quote_group = <<>>

loadVars == <<file, lineno, mapping>>
selVars == <<sel, picked>>
mainVars == <<rtc, mono, _last_refresh, _last_bucket, last_minute_seen, set_mode,
              edit_h, edit_m, meta_label, time_label, shown, ticks, call>>
layoutVars == <<quote_text, y_limits, quote_group>>

---------------------------------------------------------------------------
(* SpecLoad: load_quotes_csv line by line, the fallback substitution, then *)
(* one selection and the split of the selected text.                       *)

InitLoad ==
    /\ pc = "load"
    /\ file \in Files
    /\ lineno = 0
    /\ mapping = <<>>
    /\ QUOTES_BY_HHMM = <<>>
    /\ iter_first = 0
    /\ span = NoSpan
    /\ ParkedSelect /\ ParkedMain /\ ParkedLayout

\* one turn of `for raw in f`; an exception it raises ends the program
LoadLine ==
    /\ pc = "load"
    /\ file.readable
    /\ lineno < Len(file.lines)
    /\ LET r == load_line(mapping, file.lines[lineno + 1]) IN
       /\ mapping' = r.mapping
       /\ pc' = IF r.raised THEN "crashed" ELSE "load"
    /\ lineno' = lineno + 1
    /\ UNCHANGED <<file, QUOTES_BY_HHMM, iter_first, span, selVars, mainVars, layoutVars>>

\* `return mapping` (after the last line, or from `except OSError`) and line 123
LoadReturn ==
    /\ pc = "load"
    /\ ~file.readable \/ lineno = Len(file.lines)
    /\ QUOTES_BY_HHMM' = mapping
    /\ pc' = "loaded"
    /\ UNCHANGED <<loadVars, iter_first, span, selVars, mainVars, layoutVars>>

\* lines 124-128; from here on the dict has its iteration order
Substitute ==
    /\ pc = "loaded"
    /\ QUOTES_BY_HHMM' = substitute_fallback(QUOTES_BY_HHMM)
    /\ iter_first' \in IF QUOTES_BY_HHMM' = <<>> THEN {0} ELSE 1..Len(QUOTES_BY_HHMM')
    /\ pc' = "ready"
    /\ UNCHANGED <<loadVars, span, selVars, mainVars, layoutVars>>

\* pick_for_time(h, m), then split_caret_span of the selected quote
Select ==
    /\ pc = "ready"
    /\ \E h \in SelHours, m \in SelMinutes :
         LET r == pick_for_time(QUOTES_BY_HHMM, iter_first, h, m) IN
         /\ sel' = <<h, m>>
         /\ picked' = r
         /\ span' = IF r = RAISED THEN NoSpan ELSE split_caret_span(r[1][1])
    /\ pc' = "picked"
    /\ UNCHANGED <<loadVars, QUOTES_BY_HHMM, iter_first, mainVars, layoutVars>>

NextLoad == LoadLine \/ LoadReturn \/ Substitute \/ Select

SpecLoad == InitLoad /\ [][NextLoad]_vars

---------------------------------------------------------------------------
(* Claims about the loader and the selector (SpecLoad).                    *)

Range(q) == {q[i] : i \in 1..Len(q)}

Hours == 0..23
Minutes == 0..59

\* "Hello ^world^.", "Book", "Author", "tag"
HelloRecord ==
    << <<72,101,108,108,111,32,94,119,111,114,108,100,94,46>>, <<66,111,111,107>>,
       <<65,117,116,104,111,114>>, <<116,97,103>> >>

\* C1: after loading the one-line dataset 0900|Hello ^world^.|Book|Author|tag,
\* selecting at 09:00 returns that record, and its text splits into
\* pre "Hello ", mid "world", post ".".
C1_CompactRoundTrip ==
    (pc = "picked" /\ file = [readable |-> TRUE, lines |-> <<LineCompact>>]
       /\ sel = <<9, 0>>)
    => /\ picked = Some(HelloRecord)
       /\ span = [pre  |-> <<72,101,108,108,111,32>>,
                  mid  |-> Some(<<119,111,114,108,100>>),
                  post |-> <<46>>]

\* the claim's lookup, written out: the list under HH:MM of index idx
ListAt(idx, h, m) == dict_get(idx, time_key(h, m))
Quantized(m) == m - (m % UPDATE_MINUTES)

SelectedByFallback(idx, h, m, r) ==
    /\ r /= RAISED
    /\ IF ListAt(idx, h, Quantized(m)) /= <<>>
       THEN r[1] \in Range(ListAt(idx, h, Quantized(m)))
       ELSE \E i \in 1..Len(idx) : r[1] \in Range(idx[i].recs)

\* C2: for every hour and minute whose exact key is absent, pick_for_time returns
\* a record of the bucket-quantized key's list when that key is present, else a
\* record of some existing key's list, and it never raises; this holds of every
\* index start-up can leave (the fallback index included) and of the selection
\* the program made.
C2_BucketThenAnyKey ==
    /\ pc = "ready" =>
         \A h \in Hours, m \in Minutes :
            ListAt(QUOTES_BY_HHMM, h, m) = <<>> =>
               SelectedByFallback(QUOTES_BY_HHMM, h, m,
                                  pick_for_time(QUOTES_BY_HHMM, iter_first, h, m))
    /\ pc = "picked" =>
         (ListAt(QUOTES_BY_HHMM, sel[1], sel[2]) = <<>> =>
            SelectedByFallback(QUOTES_BY_HHMM, sel[1], sel[2], picked))

\* minute 47 without a 09:47 key fell back to the list of 09:45, while another
\* key was there to be taken by mistake
C2_Witness ==
    /\ pc = "picked"
    /\ sel = <<9, 47>>
    /\ ListAt(QUOTES_BY_HHMM, 9, 47) = <<>>
    /\ ListAt(QUOTES_BY_HHMM, 9, 45) /= <<>>
    /\ Len(QUOTES_BY_HHMM) > 1
    /\ picked /= RAISED
    /\ picked[1] \in Range(ListAt(QUOTES_BY_HHMM, 9, 45))

\* a line the loader keeps when it is the only line
KeptAlone(line) == load_line(<<>>, line).mapping /= <<>>

\* C8: the loader never raises on a malformed line, and every well-formed line,
\* before or after a malformed one, has its record in the returned index.
C8_MalformedLinesDropped ==
    /\ pc /= "crashed"
    /\ pc = "loaded" =>
         \A i \in 1..Len(file.lines) :
            KeptAlone(file.lines[i]) =>
               LET e == load_line(<<>>, file.lines[i]).mapping[1] IN
               e.recs[1] \in Range(dict_get(QUOTES_BY_HHMM, e.key))

\* two digits 00..23, a colon, two digits 00..59
ValidTimeKey(k) ==
    /\ Len(k) = 5
    /\ k[3] = COLON
    /\ \A i \in {1, 2, 4, 5} : k[i] \in Digits
    /\ (k[1] - ZERO) * 10 + (k[2] - ZERO) \in Hours
    /\ (k[4] - ZERO) * 10 + (k[5] - ZERO) \in Minutes

\* C10: every key of the index load_quotes_csv returns is a zero-padded HH:MM
\* that denotes a valid 24-hour time.
C10_KeysAreValidTimes ==
    pc = "loaded" => \A i \in 1..Len(QUOTES_BY_HHMM) : ValidTimeKey(QUOTES_BY_HHMM[i].key)

\* the record the claim names: position (hour mod length) of the exact key's list
Rotated(lst, h) == lst[(h % Len(lst)) + 1]

\* C11: for every hour and minute whose exact key HH:MM is in the index,
\* pick_for_time returns the record at position (hour mod length) of that key's
\* list, whether or not the bucket-quantized key is there too, and whatever
\* entry iteration of the index would yield first.
C11_ExactKeyByHour ==
    /\ pc = "ready" =>
         \A h \in Hours, m \in Minutes :
            ListAt(QUOTES_BY_HHMM, h, m) /= <<>> =>
               \A first \in 1..Len(QUOTES_BY_HHMM) :
                  pick_for_time(QUOTES_BY_HHMM, first, h, m)
                     = Some(Rotated(ListAt(QUOTES_BY_HHMM, h, m), h))
    /\ pc = "picked" =>
         (ListAt(QUOTES_BY_HHMM, sel[1], sel[2]) /= <<>> =>
            picked = Some(Rotated(ListAt(QUOTES_BY_HHMM, sel[1], sel[2]), sel[1])))

\* at 09:47 the record of key 09:47 was returned although key 09:45, with
\* another record, is in the index too
C11_Witness ==
    /\ pc = "picked"
    /\ sel = <<9, 47>>
    /\ ListAt(QUOTES_BY_HHMM, 9, 47) /= <<>>
    /\ ListAt(QUOTES_BY_HHMM, 9, 45) /= <<>>
    /\ ListAt(QUOTES_BY_HHMM, 9, 45) /= ListAt(QUOTES_BY_HHMM, 9, 47)
    /\ picked = Some(ListAt(QUOTES_BY_HHMM, 9, 47)[1])

\* "00:00", "12:00"
KeyMidnight == <<48,48,58,48,48>>
KeyNoon == <<49,50,58,48,48>>

\* start-up is over: the index is the one selection uses
InUse == pc \in {"ready", "picked"}

C20_EveryRecordSelectable ==
    pc = "ready" =>
        \A i \in 1..Len(QUOTES_BY_HHMM) :
           (ValidTimeKey(QUOTES_BY_HHMM[i].key) /\ Len(QUOTES_BY_HHMM[i].recs) >= 2)
              => \A j \in 1..Len(QUOTES_BY_HHMM[i].recs) :
                    \E h \in Hours, m \in Minutes :
                       pick_for_time(QUOTES_BY_HHMM, iter_first, h, m)
                          = Some(QUOTES_BY_HHMM[i].recs[j])

---------------------------------------------------------------------------
(* SpecLayout: split_caret_span and layout_quote_into_group on bounded     *)
(* texts; the group starts with the runs of an earlier render.             *)

MaxTextLen == 7

\* "a", " ", "^"
TextAlphabet == {97, SPACE, CARET}
Texts == SeqsUpTo(TextAlphabet, MaxTextLen)

\* y_start, and y_max: None, or room for no line, one, two or three lines
YStarts == {0, MARGIN}
YMaxes == {None} \cup {Some(v) : v \in {23, 24, 40, 56}}

StaleGroup == <<[text |-> <<97>>, x |-> MARGIN, y |-> 200, bold |-> FALSE]>>

InitLayout ==
    /\ pc = "text"
    /\ quote_text \in Texts
    /\ y_limits \in {<<ys, ym>> : ys \in YStarts, ym \in YMaxes}
    /\ quote_group = StaleGroup
    /\ span = NoSpan
    /\ QUOTES_BY_HHMM = <<>>
    /\ iter_first = 0
    /\ ParkedLoad /\ ParkedSelect /\ ParkedMain

Split ==
    /\ pc = "text"
    /\ span' = split_caret_span(quote_text)
    /\ pc' = "split"
    /\ UNCHANGED <<loadVars, selVars, mainVars, layoutVars, QUOTES_BY_HHMM, iter_first>>

Layout ==
    /\ pc = "split"
    /\ quote_group' = layout_quote_into_group(quote_text, y_limits[1], y_limits[2])
    /\ pc' = "laid"
    /\ UNCHANGED <<loadVars, selVars, mainVars, quote_text, y_limits, span,
                   QUOTES_BY_HHMM, iter_first>>

NextLayout == Split \/ Layout

SpecLayout == InitLayout /\ [][NextLayout]_vars

\* C7: no run of the group, the second run of a highlighted token included, lies
\* on a line whose bottom y + line_height passes y_max.
C7_RunsWithinHeight ==
    (pc = "laid" /\ y_limits[2] /= None) =>
        \A i \in 1..Len(quote_group) : quote_group[i].y + LineH <= y_limits[2][1]

\* a layout that was cut short: a highlighted token was placed twice on a line
\* that fits, and a later token was dropped for lack of height
C7_Witness ==
    /\ pc = "laid"
    /\ y_limits[2] /= None
    /\ \E i \in 1..Len(quote_group) : quote_group[i].bold /\ quote_group[i].x = MARGIN + 1
    /\ Cardinality({quote_group[i].text : i \in 1..Len(quote_group)}) >= 1
    /\ Len(tokens_of(quote_text)) > Cardinality({<<quote_group[i].x, quote_group[i].y>> :
                                                   i \in 1..Len(quote_group)})

\* positions of the carets of t, and t with its carets left out
CaretsOf(t) == {i \in 1..Len(t) : t[i] = CARET}
NotCaret(c) == c /= CARET
Uncareted(t) == SelectSeq(t, NotCaret)
Least(S) == CHOOSE i \in S : \A j \in S : i <= j

\* what the three-case policy asks of text t
SpanPolicy(t) ==
    IF Cardinality(CaretsOf(t)) = 0 THEN [pre |-> t, mid |-> None, post |-> <<>>]
    ELSE IF Cardinality(CaretsOf(t)) = 1
    THEN [pre |-> Uncareted(t), mid |-> None, post |-> <<>>]
    ELSE LET c1 == Least(CaretsOf(t))
             c2 == Least(CaretsOf(t) \ {c1})
         IN  [pre  |-> Uncareted(SubSeq(t, 1, c1 - 1)),
              mid  |-> Some(Uncareted(SubSeq(t, c1 + 1, c2 - 1))),
              post |-> Uncareted(SubSeq(t, c2 + 1, Len(t)))]

\* C12: split_caret_span follows the three-case policy (no caret: the text, no
\* span; one caret: the text without it, no span; two or more: before the first,
\* between the first and the second, after the second, further carets removed);
\* no returned string holds a caret, and splitting a returned pre or post again
\* gives (that string, None, "").
C12_ThreeCasePolicy ==
    pc \in {"split", "laid"} =>
        /\ span = SpanPolicy(quote_text)
        /\ CaretsOf(span.pre) = {} /\ CaretsOf(span.post) = {}
        /\ span.mid /= None => CaretsOf(span.mid[1]) = {}
        /\ split_caret_span(span.pre) = [pre |-> span.pre, mid |-> None, post |-> <<>>]
        /\ split_caret_span(span.post) = [pre |-> span.post, mid |-> None, post |-> <<>>]

\* a text with three carets was split: a span, and a post that lost a caret
C12_Witness ==
    /\ pc = "split"
    /\ Cardinality(CaretsOf(quote_text)) = 3
    /\ span.mid /= None /\ span.mid[1] /= <<>>
    /\ span.pre /= <<>>
    /\ Len(span.post) >= 2
    /\ Len(span.pre) + Len(span.mid[1]) + Len(span.post) = Len(quote_text) - 3

\* the second run of the faux-bold pair (a text has one highlighted token)
IsSecond(g, i) == i > 1 /\ g[i].bold /\ g[i - 1].bold

\* the runs of group g from i on, one per emitted token
RECURSIVE PrimaryFrom(_, _)
PrimaryFrom(g, i) ==
    IF i > Len(g) THEN <<>>
    ELSE (IF IsSecond(g, i) THEN <<>> ELSE <<g[i]>>) \o PrimaryFrom(g, i + 1)

Emitted == PrimaryFrom(quote_group, 1)
LineYs == {Emitted[i].y : i \in 1..Len(Emitted)}

\* the tokens of the line at y, in order
RECURSIVE RunsAt(_, _)
RunsAt(e, y) ==
    IF e = <<>> THEN <<>>
    ELSE (IF Head(e).y = y THEN <<Head(e)>> ELSE <<>>) \o RunsAt(Tail(e), y)

WidthOfText(t) == CharW * Len(t)

\* sum of the token widths plus one space width between consecutive tokens
RECURSIVE LineWidth(_)
LineWidth(runs) ==
    IF runs = <<>> THEN 0
    ELSE WidthOfText(Head(runs).text)
         + (IF Tail(runs) = <<>> THEN 0 ELSE WidthOfText(<<SPACE>>))
         + LineWidth(Tail(runs))

Fits(w) == MARGIN + w + MARGIN <= DisplayWidth

\* C16: every emitted line of two or more tokens fits the display width with
\* both margins; a line that does not fit holds a single token, itself too
\* wide; and a token begins a new line only if it would not have fitted at the
\* end of the line before.
C16_GreedyWrap ==
    pc = "laid" =>
        /\ \A y \in LineYs :
              /\ Len(RunsAt(Emitted, y)) >= 2 => Fits(LineWidth(RunsAt(Emitted, y)))
              /\ ~Fits(LineWidth(RunsAt(Emitted, y)))
                    => /\ Len(RunsAt(Emitted, y)) = 1
                       /\ ~Fits(WidthOfText(RunsAt(Emitted, y)[1].text))
        /\ \A i \in 2..Len(Emitted) :
              Emitted[i].y /= Emitted[i - 1].y
                 => ~Fits(LineWidth(RunsAt(Emitted, Emitted[i - 1].y))
                          + WidthOfText(<<SPACE>>) + WidthOfText(Emitted[i].text))

\* two tokens share the first line, which fits; the third token, too wide for
\* any line, stands alone and unsplit on the second
C16_Witness ==
    /\ pc = "laid"
    /\ Cardinality(LineYs) = 2
    /\ Len(Emitted) = 3
    /\ Len(RunsAt(Emitted, Emitted[1].y)) = 2
    /\ Fits(LineWidth(RunsAt(Emitted, Emitted[1].y)))
    /\ Emitted[3].y /= Emitted[1].y
    /\ ~Fits(WidthOfText(Emitted[3].text))

Pitch == LineH + LINE_PAD

\* C17: the emitted tokens are a prefix, in order, of the token sequence (pre
\* words, the span as one token, post words) and end at a line boundary; tokens
\* are missing only because the next line would pass y_max; the lines are at
\* y_start + k * (line_height + 2), k = 0, 1, 2, ...; the group holds the runs of
\* this call only, so an empty text leaves no run.
C17_TruncatedPrefix ==
    pc = "laid" =>
        LET toks == tokens_of(quote_text)
            n == Len(Emitted)
            k == Cardinality(LineYs)
        IN  /\ n <= Len(toks)
            /\ \A i \in 1..n : Emitted[i].text = toks[i].txt /\ Emitted[i].bold = toks[i].bold
            /\ Len(quote_group) = n + Cardinality({i \in 1..n : toks[i].bold})
            /\ \A i \in 2..n : Emitted[i].y >= Emitted[i - 1].y
            /\ LineYs = {y_limits[1] + j * Pitch : j \in 0..(k - 1)}
            /\ n < Len(toks) =>
                  /\ y_limits[2] /= None
                  /\ y_limits[1] + k * Pitch + LineH > y_limits[2][1]
                  /\ n >= 1 => ~Fits(LineWidth(RunsAt(Emitted, Emitted[n].y))
                                     + WidthOfText(<<SPACE>>) + WidthOfText(toks[n + 1].txt))
            /\ quote_text = <<>> => quote_group = <<>>
            /\ \A i \in 1..Len(quote_group) : quote_group[i] \notin Range(StaleGroup)

\* two whole lines were emitted, the third did not fit under y_max and its
\* tokens are missing
C17_Witness ==
    /\ pc = "laid"
    /\ y_limits = <<MARGIN, Some(40)>>
    /\ Cardinality(LineYs) = 2
    /\ Len(Emitted) < Len(tokens_of(quote_text))
    /\ Len(Emitted) >= 2

---------------------------------------------------------------------------
(* SpecSanitize: sanitize_ascii on bounded texts, the way render applies   *)
(* it to the text of a label.                                              *)

MaxSanLen == 3

\* "A", "a", DEL, the first non-ASCII code point, e acute, the ten characters of
\* the replacement table, the euro sign
SanAlphabet ==
    {65, 97, 127, 128, 233, 160, 183, 8211, 8212, 8216, 8217, 8220, 8221, 8226,
     8230, 8364}
SanTexts == SeqsUpTo(SanAlphabet, MaxSanLen)

InitSanitize ==
    /\ pc = "raw"
    /\ quote_text \in SanTexts
    /\ y_limits = <<>>
    /\ quote_group = <<>>
    /\ span = NoSpan
    /\ QUOTES_BY_HHMM = <<>>
    /\ iter_first = 0
    /\ ParkedLoad /\ ParkedSelect /\ ParkedMain

\* label.text = sanitize_ascii(text)
Sanitize ==
    /\ pc = "raw"
    /\ meta_label' = sanitize_ascii(quote_text)
    /\ pc' = "clean"
    /\ UNCHANGED <<loadVars, selVars, layoutVars, span, QUOTES_BY_HHMM, iter_first,
                   rtc, mono, _last_refresh, _last_bucket, last_minute_seen, set_mode,
                   edit_h, edit_m, time_label, shown, ticks, call>>

NextSanitize == Sanitize

SpecSanitize == InitSanitize /\ [][NextSanitize]_vars

\* the ASCII equivalents the claim names, by code point: dashes to "-", the
\* ellipsis to three dots, double and single curly quotes to straight ones,
\* bullet and middle dot to "*", the no-break space to a space
AsciiEquivalent ==
    (8212 :> <<45>>) @@ (8211 :> <<45>>) @@ (8230 :> <<46, 46, 46>>)
    @@ (8220 :> <<34>>) @@ (8221 :> <<34>>) @@ (8216 :> <<39>>) @@ (8217 :> <<39>>)
    @@ (8226 :> <<42>>) @@ (183 :> <<42>>) @@ (160 :> <<32>>)

ImageOf(ch) ==
    IF ch < 128 THEN <<ch>>
    ELSE IF ch \in DOMAIN AsciiEquivalent THEN AsciiEquivalent[ch]
    ELSE <<63>>

RECURSIVE Images(_)
Images(t) == IF t = <<>> THEN <<>> ELSE ImageOf(Head(t)) \o Images(Tail(t))

\* C15: sanitize_ascii returns only characters below 128: a character of the
\* replacement table becomes its ASCII equivalent (the ellipsis three dots), any
\* other character of code point >= 128 becomes "?", and characters below 128
\* are kept, in order.
C15_SanitizedIsAscii ==
    pc = "clean" =>
        /\ \A i \in 1..Len(meta_label) : meta_label[i] < 128
        /\ meta_label = Images(quote_text)

\* an ellipsis, a character outside the table and an ASCII letter were sanitized
C15_Witness ==
    /\ pc = "clean"
    /\ quote_text = <<8230, 233, 97>>
    /\ meta_label = <<46, 46, 46, 63, 97>>

---------------------------------------------------------------------------
(* Render scheduler.  A screen record holds what render and safe_refresh   *)
(* read and write, and what the call did.                                  *)

MIN_REFRESH_GAP == 5
RETRY_DELAY == 5
SLEEP_LOOP == 1
META_PAD == 4
QUOTE_PAD == 8

\* what display.refresh() answers, first call and (asked only after a busy
\* first one) second call: done, or RuntimeError (busy)
Outcomes == {<<"ok", "ok">>, <<"busy", "ok">>, <<"busy", "busy">>}

Screen ==
    [mono |-> mono, last_refresh |-> _last_refresh, last_bucket |-> _last_bucket,
     quote_text |-> quote_text, y_limits |-> y_limits, quote_group |-> quote_group,
     meta_label |-> meta_label, time_label |-> time_label, shown |-> shown,
     skipped |-> FALSE, attempts |-> 0, refreshed |-> FALSE, raised |-> FALSE]

Content(s) == [quote |-> s.quote_group, meta |-> s.meta_label, time |-> s.time_label]

\* safe_refresh without the test of the minimum gap
safe_refresh_ungated(s, o1, o2) ==
    IF o1 = "ok"
    THEN [s EXCEPT !.shown = Content(s), !.last_refresh = s.mono,
                   !.attempts = 1, !.refreshed = TRUE]
    ELSE IF o2 = "ok"
    THEN [s EXCEPT !.mono = s.mono + RETRY_DELAY, !.shown = Content(s),
                   !.last_refresh = s.mono + RETRY_DELAY,
                   !.attempts = 2, !.refreshed = TRUE]
    ELSE [s EXCEPT !.mono = s.mono + RETRY_DELAY, !.attempts = 2, !.refreshed = FALSE]

\* safe_refresh(): o1, o2 are the answers of the first and the second
\* display.refresh()
safe_refresh(s, o1, o2) ==
    IF s.mono - s.last_refresh < MIN_REFRESH_GAP
    THEN [s EXCEPT !.attempts = 0, !.refreshed = FALSE]
    ELSE IF o1 = "ok"
    THEN [s EXCEPT !.shown = Content(s), !.last_refresh = s.mono,
                   !.attempts = 1, !.refreshed = TRUE]
    ELSE IF o2 = "ok"
    THEN [s EXCEPT !.mono = s.mono + RETRY_DELAY, !.shown = Content(s),
                   !.last_refresh = s.mono + RETRY_DELAY,
                   !.attempts = 2, !.refreshed = TRUE]
    ELSE [s EXCEPT !.mono = s.mono + RETRY_DELAY, !.attempts = 2, !.refreshed = FALSE]

\* " - ", "Time: "
MetaSep == <<32, 45, 32>>
TimePrefix == <<84, 105, 109, 101, 58, 32>>

\* lines 262-283 of render for the selected record rec
render_record(lpt, s, h, m, rec, o1, o2) ==
    LET meta_text == sanitize_ascii(rec[2] \o MetaSep \o rec[3])
        meta_y == DisplayHeight - MARGIN
        meta_h == measure(meta_text)[2]
        time_text == sanitize_ascii(TimePrefix \o fmt_time(h, m))
        time_y == meta_y - meta_h - META_PAD
        quote_bottom_limit == time_y - QUOTE_PAD
    IN  safe_refresh([s EXCEPT !.meta_label = meta_text,
                               !.time_label = time_text,
                               !.quote_text = rec[1],
                               !.y_limits = <<MARGIN, Some(quote_bottom_limit)>>,
                               !.quote_group = layout_quote_into_group(
                                                   rec[1], MARGIN, Some(quote_bottom_limit)),
                               !.last_bucket = IF lpt = None THEN Some(bucket_of(m))
                                               ELSE s.last_bucket],
                     o1, o2)

\* the selection of line 260, an exception of which leaves render
render_picked(lpt, s, h, m, p, o1, o2) ==
    IF p = RAISED THEN [s EXCEPT !.raised = TRUE]
    ELSE render_record(lpt, s, h, m, p[1], o1, o2)

\* lines 260-283 of render: selection, labels, layout, refresh, bucket memory
render_body(lpt, s, h, m, idx, first, o1, o2) ==
    render_picked(lpt, s, h, m, pick_for_time(idx, first, h, m), o1, o2)

\* render that does not look at the bucket of the last render
render_always(force, lpt, s, now, idx, first, o1, o2) ==
    render_body(lpt, s, IF lpt /= None THEN lpt[1][1] ELSE now.hour,
                IF lpt /= None THEN lpt[1][2] ELSE now.min, idx, first, o1, o2)

\* render that remembers the bucket of a live preview too
render_remembering(force, lpt, s, now, idx, first, o1, o2) ==
    LET h == IF lpt /= None THEN lpt[1][1] ELSE now.hour
        m == IF lpt /= None THEN lpt[1][2] ELSE now.min
    IN  IF ~force /\ lpt = None /\ Some(bucket_of(m)) = s.last_bucket
        THEN [s EXCEPT !.skipped = TRUE]
        ELSE [render_body(lpt, s, h, m, idx, first, o1, o2)
                 EXCEPT !.last_bucket = Some(bucket_of(m))]

\* render(force, live_preview_time): lpt is None or Some(<<h, m>>), now the clock
render(force, lpt, s, now, idx, first, o1, o2) ==
    LET h == IF lpt /= None THEN lpt[1][1] ELSE now.hour
        m == IF lpt /= None THEN lpt[1][2] ELSE now.min
    IN  IF ~force /\ lpt = None /\ Some(bucket_of(m)) = s.last_bucket
        THEN [s EXCEPT !.skipped = TRUE]
        ELSE render_body(lpt, s, h, m, idx, first, o1, o2)

---------------------------------------------------------------------------
(* Set-time UI.                                                            *)

SET_NONE == 0
SET_H == 1
SET_M == 2
SET_SAVE == 3

\* "Set H  (A next  B+  C-  D save)"
PromptH ==
    <<83,101,116,32,72,32,32,40,65,32,110,101,120,116,32,32,66,43,32,32,67,45,32,32,
      68,32,115,97,118,101,41>>
\* "Set M  (A next  B+  C-  D save)"
PromptM ==
    <<83,101,116,32,77,32,32,40,65,32,110,101,120,116,32,32,66,43,32,32,67,45,32,32,
      68,32,115,97,118,101,41>>
\* "Press D to Save (A cycles)"
PromptSave ==
    <<80,114,101,115,115,32,68,32,116,111,32,83,97,118,101,32,40,65,32,99,121,99,
      108,101,115,41>>

\* the fields a key handler may change; commit tells that commit_time ran
Ui == [mode |-> set_mode, h |-> edit_h, m |-> edit_m, meta |-> meta_label,
       rtc |-> rtc, commit |-> FALSE]

\* enter_set()
enter_set(u) ==
    [u EXCEPT !.h = u.rtc.hour, !.m = u.rtc.min, !.mode = SET_H, !.meta = PromptH]

\* cycle_field()
cycle_field(u) ==
    IF u.mode = SET_H THEN [u EXCEPT !.mode = SET_M, !.meta = PromptM]
    ELSE IF u.mode = SET_M THEN [u EXCEPT !.mode = SET_SAVE, !.meta = PromptSave]
    ELSE IF u.mode = SET_SAVE THEN [u EXCEPT !.mode = SET_H, !.meta = PromptH]
    ELSE u

\* set_now(year, month, mday, hour, minute, second)
set_now(year, month, mday, hour, minute, second) ==
    [year |-> year, mon |-> month, mday |-> mday, hour |-> hour, min |-> minute,
     sec |-> second]

\* commit_time that keeps the seconds of the clock
commit_time_keep_sec(u) ==
    [u EXCEPT !.rtc = set_now(u.rtc.year, u.rtc.mon, u.rtc.mday, u.h, u.m, u.rtc.sec),
              !.mode = SET_NONE, !.meta = <<>>, !.commit = TRUE]

\* commit_time() up to its render(force=True)
commit_time(u) ==
    [u EXCEPT !.rtc = set_now(u.rtc.year, u.rtc.mon, u.rtc.mday, u.h, u.m, 0),
              !.mode = SET_NONE, !.meta = <<>>, !.commit = TRUE]

\* key handling whose C takes one off without wrapping
on_key_unwrapped(k, u) ==
    IF u.mode = SET_NONE
    THEN IF k = "A" THEN enter_set(u) ELSE u
    ELSE CASE k = "A" -> cycle_field(u)
           [] k = "B" -> IF u.mode = SET_H THEN [u EXCEPT !.h = (u.h + 1) % 24]
                         ELSE IF u.mode = SET_M THEN [u EXCEPT !.m = (u.m + 1) % 60]
                         ELSE u
           [] k = "C" -> IF u.mode = SET_H THEN [u EXCEPT !.h = u.h - 1]
                         ELSE IF u.mode = SET_M THEN [u EXCEPT !.m = u.m - 1]
                         ELSE u
           [] k = "D" -> commit_time(u)
           [] OTHER -> u

\* lines 329-346: what the pressed key k does, renders aside
on_key(k, u) ==
    IF u.mode = SET_NONE
    THEN IF k = "A" THEN enter_set(u) ELSE u
    ELSE CASE k = "A" -> cycle_field(u)
           [] k = "B" -> IF u.mode = SET_H THEN [u EXCEPT !.h = (u.h + 1) % 24]
                         ELSE IF u.mode = SET_M THEN [u EXCEPT !.m = (u.m + 1) % 60]
                         ELSE u
           [] k = "C" -> IF u.mode = SET_H THEN [u EXCEPT !.h = (u.h - 1) % 24]
                         ELSE IF u.mode = SET_M THEN [u EXCEPT !.m = (u.m - 1) % 60]
                         ELSE u
           [] k = "D" -> commit_time(u)
           [] OTHER -> u

---------------------------------------------------------------------------
(* Spec: start-up (lines 72, 123-128, 288) and the main loop.  One turn of *)
(* the loop is three steps: the key event with its handler and renders,    *)
(* the periodic render, the sleep.  The clock advances between steps.      *)

\* time.monotonic() when code.py starts, and how long the loop is followed
BootMono == 10
MaxUptime == 3
\* minutes the clock may advance by itself
MaxTicks == 2

\* the clock at power-on: never set, or set on an earlier run
RtcPowerOn ==
    {set_now(2000, 1, 1, 0, 0, 7), set_now(2025, 6, 14, 9, 43, 30),
     set_now(2025, 6, 14, 23, 59, 30)}

\* the dataset on the device: none, a good one, one with a non-numeric time,
\* one with typographic characters
BootFiles ==
    {[readable |-> FALSE, lines |-> <<>>],
     [readable |-> TRUE, lines |-> <<LineNine, LineShort, LineNineB>>],
     [readable |-> TRUE, lines |-> <<LineNine, LineNonNum>>],
     [readable |-> TRUE, lines |-> <<LineTypographic>>]}

\* the RTC one minute later
next_minute(t) ==
    IF t.min < 59 THEN [t EXCEPT !.min = t.min + 1]
    ELSE IF t.hour < 23 THEN [t EXCEPT !.min = 0, !.hour = t.hour + 1]
    ELSE [t EXCEPT !.min = 0, !.hour = 0, !.mday = t.mday + 1]

Init ==
    /\ pc = "ensure"
    /\ file \in BootFiles
    /\ lineno = 0
    /\ mapping = <<>>
    /\ QUOTES_BY_HHMM = <<>>
    /\ iter_first = 0
    /\ span = NoSpan
    /\ rtc \in RtcPowerOn
    /\ mono = BootMono
    /\ _last_refresh = 0
    /\ _last_bucket = None
    /\ last_minute_seen = -1
    /\ set_mode = SET_NONE
    /\ edit_h = 0
    /\ edit_m = 0
    /\ meta_label = <<>>
    /\ time_label = <<>>
    /\ shown = Blank
    /\ ticks = 0
    /\ call = NoCall
    /\ ParkedSelect /\ ParkedLayout

indexVars == <<QUOTES_BY_HHMM, iter_first>>
uiVars == <<set_mode, edit_h, edit_m>>
screenVars == <<mono, _last_refresh, _last_bucket, quote_text, y_limits, quote_group,
                meta_label, time_label, shown>>

\* the screen record r written back, and what the step's call did
Apply(r, k, rendered, force, preview, o1) ==
    /\ mono' = r.mono
    /\ _last_refresh' = r.last_refresh
    /\ _last_bucket' = r.last_bucket
    /\ quote_text' = r.quote_text
    /\ y_limits' = r.y_limits
    /\ quote_group' = r.quote_group
    /\ meta_label' = r.meta_label
    /\ time_label' = r.time_label
    /\ shown' = r.shown
    /\ call' = [op |-> IF rendered THEN "render" ELSE "none", key |-> k,
                force |-> force, preview |-> preview, skipped |-> r.skipped,
                attempts |-> r.attempts, refreshed |-> r.refreshed,
                busy1 |-> (r.attempts >= 1 /\ o1 = "busy")]

\* ensure_default_time_if_unset()
EnsureTime ==
    /\ pc = "ensure"
    /\ rtc' = IF rtc.year < 2023 THEN set_now(2025, 1, 1, 12, 0, 0) ELSE rtc
    /\ pc' = "index"
    /\ UNCHANGED <<loadVars, indexVars, selVars, span, uiVars, screenVars,
                   last_minute_seen, ticks, call>>

\* lines 123-128; a ValueError of the loader ends the program
LoadIndex ==
    /\ pc = "index"
    /\ LET r == load_quotes_csv(file) IN
       /\ QUOTES_BY_HHMM' = IF r.raised THEN <<>> ELSE substitute_fallback(r.mapping)
       /\ iter_first' \in IF QUOTES_BY_HHMM' = <<>> THEN {0}
                         ELSE 1..Len(QUOTES_BY_HHMM')
       /\ pc' = IF r.raised THEN "crashed" ELSE "paint"
    /\ UNCHANGED <<loadVars, selVars, span, rtc, uiVars, screenVars,
                   last_minute_seen, ticks, call>>

\* line 288: render(force=True)
FirstPaint ==
    /\ pc = "paint"
    /\ \E o \in Outcomes :
         LET r == render(TRUE, None, Screen, rtc, QUOTES_BY_HHMM, iter_first, o[1], o[2]) IN
         /\ Apply(r, "none", TRUE, TRUE, FALSE, o[1])
         /\ pc' = IF r.raised THEN "crashed" ELSE "poll"
    /\ UNCHANGED <<loadVars, indexVars, selVars, span, rtc, uiVars,
                   last_minute_seen, ticks>>

\* lines 327-350 for a pressed key k ("none": no event, or a release)
KeyStep(k, o1, o2) ==
    LET u == on_key(k, Ui)
        s0 == [Screen EXCEPT !.meta_label = u.meta]
        preview == set_mode /= SET_NONE /\ u.mode \in {SET_H, SET_M}
        r == IF u.commit
             THEN render(TRUE, None, s0, u.rtc, QUOTES_BY_HHMM, iter_first, o1, o2)
             ELSE IF preview
             THEN render(FALSE, Some(<<u.h, u.m>>), s0, u.rtc, QUOTES_BY_HHMM,
                         iter_first, o1, o2)
             ELSE s0
    IN  /\ set_mode' = u.mode
        /\ edit_h' = u.h
        /\ edit_m' = u.m
        /\ rtc' = u.rtc
        /\ Apply(r, k, u.commit \/ preview, u.commit, preview, o1)
        /\ pc' = IF r.raised THEN "crashed" ELSE "tick"
        /\ UNCHANGED <<loadVars, indexVars, selVars, span, last_minute_seen, ticks>>

NoKey ==
    /\ pc = "poll"
    /\ KeyStep("none", "ok", "ok")
PressA ==
    /\ pc = "poll"
    /\ \E o \in Outcomes : KeyStep("A", o[1], o[2])
PressB ==
    /\ pc = "poll"
    /\ \E o \in Outcomes : KeyStep("B", o[1], o[2])
PressC ==
    /\ pc = "poll"
    /\ \E o \in Outcomes : KeyStep("C", o[1], o[2])
PressD ==
    /\ pc = "poll"
    /\ \E o \in Outcomes : KeyStep("D", o[1], o[2])

\* lines 352-355: the periodic render
Tick ==
    /\ pc = "tick"
    /\ \E o \in Outcomes :
         LET due == set_mode = SET_NONE /\ rtc.min /= last_minute_seen
             r == IF due
                  THEN render(FALSE, None, Screen, rtc, QUOTES_BY_HHMM, iter_first,
                              o[1], o[2])
                  ELSE Screen
         IN  /\ Apply(r, "none", due, FALSE, FALSE, o[1])
             /\ last_minute_seen' = IF due /\ ~r.raised THEN rtc.min ELSE last_minute_seen
             /\ pc' = IF r.raised THEN "crashed" ELSE "sleep"
    /\ UNCHANGED <<loadVars, indexVars, selVars, span, rtc, uiVars, ticks>>

\* line 357: time.sleep(0.1)
Sleep ==
    /\ pc = "sleep"
    /\ mono + SLEEP_LOOP <= BootMono + MaxUptime
    /\ mono' = mono + SLEEP_LOOP
    /\ pc' = "poll"
    /\ call' = NoCall
    /\ UNCHANGED <<loadVars, indexVars, selVars, span, rtc, uiVars, _last_refresh,
                   _last_bucket, quote_text, y_limits, quote_group, meta_label,
                   time_label, shown, last_minute_seen, ticks>>

\* the RTC reaches the next minute
ClockAdvance ==
    /\ pc \in {"poll", "tick"}
    /\ ticks < MaxTicks
    /\ rtc' = next_minute(rtc)
    /\ ticks' = ticks + 1
    /\ UNCHANGED <<pc, loadVars, indexVars, selVars, span, uiVars, screenVars,
                   last_minute_seen, call>>

Next ==
    \/ EnsureTime \/ LoadIndex \/ FirstPaint
    \/ NoKey \/ PressA \/ PressB \/ PressC \/ PressD
    \/ Tick \/ Sleep \/ ClockAdvance

Spec == Init /\ [][Next]_vars

---------------------------------------------------------------------------
(* Claims about the render scheduler and the set-time UI (Spec).           *)

\* a step of the program (not of the clock) in which render was called
RenderCalled == pc' /= pc /\ call'.op = "render"

layoutState == <<quote_text, y_limits, quote_group>>

\* C3: once a non-preview render has set _last_bucket to b, a call
\* render(force=False, live_preview_time=None) made while the clock's minute is
\* still in bucket b returns at once: no layout change, no label change, no
\* refresh attempt, no delay, _last_bucket and _last_refresh unchanged.
C3_SameBucketRenderReturns ==
    [][ (RenderCalled /\ ~call'.force /\ ~call'.preview
           /\ _last_bucket = Some(Quantized(rtc.min)))
        => /\ call'.skipped
           /\ call'.attempts = 0
           /\ UNCHANGED <<layoutState, meta_label, time_label, shown,
                          _last_bucket, _last_refresh, mono>> ]_vars

\* the clock went from 09:43 to 09:44 and the periodic render returned at once
C3_Witness ==
    /\ pc = "sleep"
    /\ call.op = "render" /\ call.skipped
    /\ ticks >= 1
    /\ rtc.hour = 9 /\ rtc.min = 44
    /\ _last_bucket = Some(40)

\* "Time: HH:MM"
TimeShown(h, m) == TimePrefix \o time_key(h, m)

\* C4: a render with a live-preview time always selects and lays out, whatever
\* _last_bucket is, and leaves _last_bucket unchanged; leaving edit mode comes
\* with a non-preview render that is not suppressed.
C4_PreviewRendersAndKeepsBucket ==
    [][ /\ (RenderCalled /\ call'.preview)
           => /\ ~call'.skipped
              /\ time_label' = TimeShown(edit_h', edit_m')
              /\ \E i \in 1..Len(QUOTES_BY_HHMM) :
                    \E rec \in Range(QUOTES_BY_HHMM[i].recs) : quote_text' = rec[1]
              /\ _last_bucket' = _last_bucket
        /\ (pc' /= pc /\ set_mode /= SET_NONE /\ set_mode' = SET_NONE)
           => /\ call'.op = "render" /\ ~call'.preview /\ ~call'.skipped
              /\ time_label' = TimeShown(rtc'.hour, rtc'.min) ]_vars

\* a preview was rendered although its bucket is the one last rendered
C4_Witness ==
    /\ pc = "tick"
    /\ call.op = "render" /\ call.preview /\ ~call.skipped
    /\ set_mode = SET_M
    /\ _last_bucket = Some(Quantized(edit_m))
    /\ time_label = TimeShown(edit_h, edit_m)

\* C5: a call of safe_refresh makes no display.refresh attempt when less than
\* MIN_REFRESH_GAP has passed since _last_refresh, and else at most two, the
\* second only after a busy first one and one fixed delay; the busy error does
\* not leave the call; only an attempt that succeeded updates _last_refresh.
C5_RefreshGatedAndRetriedOnce ==
    [][ (RenderCalled /\ ~call'.skipped)
        => /\ (mono - _last_refresh < MIN_REFRESH_GAP => call'.attempts = 0)
           /\ call'.attempts \in {0, 1, 2}
           /\ (call'.attempts = 2 => call'.busy1 /\ mono' = mono + RETRY_DELAY)
           /\ (call'.attempts < 2 => mono' = mono)
           /\ (call'.attempts = 1 => ~call'.busy1 /\ call'.refreshed)
           /\ pc' /= "crashed"
           /\ (~call'.refreshed => _last_refresh' = _last_refresh /\ shown' = shown)
           /\ (call'.refreshed => _last_refresh' = mono') ]_vars

\* both attempts met a busy panel and the call gave up
C5_Witness ==
    /\ call.op = "render" /\ ~call.skipped
    /\ call.attempts = 2 /\ call.busy1 /\ ~call.refreshed
    /\ mono - _last_refresh >= MIN_REFRESH_GAP + RETRY_DELAY

\* the panel does not show what is laid out
Stale == shown /= [quote |-> quote_group, meta |-> meta_label, time |-> time_label]

\* C6: after the refresh of a non-preview render was skipped or given up, the
\* next render call of the idle loop attempts the refresh again, so the panel
\* catches up without waiting for the minute bucket to change.
C6_NextIdleRenderRefreshes ==
    [][ (pc = "tick" /\ pc' = "sleep" /\ set_mode = SET_NONE /\ Stale
           /\ call'.op = "render")
        => (~call'.skipped /\ call'.attempts >= 1) ]_vars

KeyTurn == pc = "poll" /\ pc' /= pc

\* C9: idle, edit-hour, edit-minute, confirm: in idle only A acts and enters
\* edit-hour with the clock's hour and minute; A cycles hour -> minute ->
\* confirm -> hour; D in any edit state writes (edit_h, edit_m, second 0, same
\* date) to the clock, returns to idle and renders by force; no other step of
\* the loop writes the clock.
C9_SetTimeStateMachine ==
    [][ /\ (KeyTurn /\ set_mode = SET_NONE /\ call'.key = "A")
           => (set_mode' = SET_H /\ edit_h' = rtc.hour /\ edit_m' = rtc.min /\ rtc' = rtc)
        /\ (KeyTurn /\ set_mode = SET_NONE /\ call'.key /= "A")
           => UNCHANGED <<set_mode, edit_h, edit_m, rtc>>
        /\ (KeyTurn /\ set_mode /= SET_NONE /\ call'.key = "A")
           => /\ set_mode = SET_H => set_mode' = SET_M
              /\ set_mode = SET_M => set_mode' = SET_SAVE
              /\ set_mode = SET_SAVE => set_mode' = SET_H
              /\ UNCHANGED <<edit_h, edit_m, rtc>>
        /\ (KeyTurn /\ set_mode /= SET_NONE /\ call'.key = "D")
           => /\ rtc' = [year |-> rtc.year, mon |-> rtc.mon, mday |-> rtc.mday,
                         hour |-> edit_h, min |-> edit_m, sec |-> 0]
              /\ set_mode' = SET_NONE
              /\ call'.op = "render" /\ call'.force /\ ~call'.skipped
        /\ (pc' /= pc /\ pc \in {"poll", "tick", "sleep"}
              /\ ~(pc = "poll" /\ set_mode /= SET_NONE /\ call'.key = "D"))
           => rtc' = rtc
        /\ set_mode' \in {SET_NONE, SET_H, SET_M, SET_SAVE} ]_vars

\* from 09:43:30 the hour was raised to 10 and D saved 10:43:00 on the same day
C9_Witness ==
    /\ pc = "tick"
    /\ call.key = "D" /\ call.op = "render" /\ call.force
    /\ set_mode = SET_NONE
    /\ rtc = [year |-> 2025, mon |-> 6, mday |-> 14, hour |-> 10, min |-> 43, sec |-> 0]

\* the field after one step up or down, wrapping within 0..n-1
Up(v, n) == IF v = n - 1 THEN 0 ELSE v + 1
Down(v, n) == IF v = 0 THEN n - 1 ELSE v - 1

\* C13: edit_h stays in 0..23 and edit_m in 0..59; B raises and C lowers only the
\* field being edited, wrapping (23+1 -> 0, 0-1 -> 23; 59+1 -> 0, 0-1 -> 59), the
\* other field is unchanged, and in the confirm state B and C change neither.
C13_EditFieldsWrap ==
    [][ /\ edit_h' \in 0..23 /\ edit_m' \in 0..59
        /\ (KeyTurn /\ set_mode = SET_H /\ call'.key = "B")
           => (edit_h' = Up(edit_h, 24) /\ edit_m' = edit_m)
        /\ (KeyTurn /\ set_mode = SET_H /\ call'.key = "C")
           => (edit_h' = Down(edit_h, 24) /\ edit_m' = edit_m)
        /\ (KeyTurn /\ set_mode = SET_M /\ call'.key = "B")
           => (edit_m' = Up(edit_m, 60) /\ edit_h' = edit_h)
        /\ (KeyTurn /\ set_mode = SET_M /\ call'.key = "C")
           => (edit_m' = Down(edit_m, 60) /\ edit_h' = edit_h)
        /\ (KeyTurn /\ set_mode = SET_SAVE /\ call'.key \in {"B", "C"})
           => UNCHANGED <<edit_h, edit_m>> ]_vars

\* midnight had just passed when edit mode was entered at 00:00, and C took the
\* hour from 0 to 23 while the minute stayed 0
C13_Witness ==
    /\ pc = "tick"
    /\ call.key = "C"
    /\ set_mode = SET_H
    /\ rtc.hour = 0 /\ rtc.min = 0
    /\ edit_h = 23 /\ edit_m = 0

IsAscii(t) == \A i \in 1..Len(t) : t[i] < 128

\* C18: in every render the selected quote text goes through sanitize_ascii
\* before it is tokenized and laid out, so every quote run, like the meta and
\* the time label, holds only characters of code point below 128.
C18_QuoteRunsAreAscii ==
    /\ \A i \in 1..Len(quote_group) : IsAscii(quote_group[i].text)
    /\ IsAscii(meta_label)
    /\ IsAscii(time_label)

\* the quote texts of the records under key HH:MM
TextsAt(idx, h, m) == {rec[1] : rec \in Range(ListAt(idx, h, m))}

\* C19: in idle mode, after each turn of the main loop that observes a new
\* clock minute, what is laid out is the content for the clock's hour and
\* minute: the time label shows the current HH:MM and, when the index has the
\* exact key of that minute, the quote is a record of that key's list.
C19_IdleContentFollowsClock ==
    [][ (pc = "tick" /\ pc' = "sleep" /\ set_mode = SET_NONE
           /\ rtc.min /= last_minute_seen)
        => /\ time_label' = TimeShown(rtc.hour, rtc.min)
           /\ ListAt(QUOTES_BY_HHMM, rtc.hour, rtc.min) /= <<>>
                 => quote_text' \in TextsAt(QUOTES_BY_HHMM, rtc.hour, rtc.min) ]_vars

====
